---- MODULE Spec2Model ----
(***************************************************************************)
(* Model of public/scripts/macros/MacroLexer.js: the token catalog, the    *)
(* mode table Def, the definition helpers enter/exits/using, and the mode  *)
(* stack machine that tokenize() runs over Def.                            *)
(*                                                                         *)
(* Text is a sequence of one-character strings; offsets are 0-based as in  *)
(* the lexer, so the character at offset i is input[i + 1].                *)
(***************************************************************************)
EXTENDS Integers, Sequences, FiniteSets, TLC

VARIABLES
    input,          \* the text handed to tokenize
    offset,         \* current scan offset (0-based)
    modeStack,      \* LIFO of active mode names, top is the last element
    tokens,         \* emitted tokens, in order
    errors,         \* recorded lexical errors, in order
    pc,             \* "idle" | "scan" | "done"
    policy,         \* recovery after "no viable token": "abort" | "skip"
    matched,        \* history of every match of the scan loop (emitting or not)
    previous,       \* what the call before this one was given and returned, or NoResult
    PUSH_MODE,      \* token name -> mode pushed on match, or NoMode
    POP_MODE,       \* token name -> BOOLEAN
    enterModesMap,  \* token name -> mode registered by enter(), or NoMode
    thrown,         \* message of the Error the last definition call threw, or NoError
    lastCall,       \* the last definition call made: [fn, token, mode, andExits]
    usedTokens      \* the tokens a using() call has returned

lexVars == <<input, offset, modeStack, tokens, errors, pc, policy, matched, previous>>
defVars == <<PUSH_MODE, POP_MODE, enterModesMap, thrown, lastCall, usedTokens>>
vars == <<input, offset, modeStack, tokens, errors, pc, policy, matched, previous,
          PUSH_MODE, POP_MODE, enterModesMap, thrown, lastCall, usedTokens>>

(***************************************************************************)
(* Bounds of the model                                                     *)
(***************************************************************************)
MaxLen == 5
MaxArgs == 2
MaxDepth == 2

(***************************************************************************)
(* modes (lines 6-11)                                                      *)
(***************************************************************************)
plaintext == "plaintext_mode"
macro_def == "macro_def_mode"
macro_identifier_end == "macro_identifier_end"
macro_args == "macro_args_mode"

modes == {plaintext, macro_def, macro_identifier_end, macro_args}

NoMode == "undefined"
NoError == "none"
Undefined == "undefined_token"

(***************************************************************************)
(* Character classes of the regular expressions                            *)
(***************************************************************************)
EOF == "<eof>"

\* character at 0-based offset i, EOF past the end
At(s, i) == IF i >= 0 /\ i < Len(s) THEN s[i + 1] ELSE EOF

Letters == {"a", "b", "c", "n"}
Digits == {"1"}
\* [a-zA-Z]
IsLetter(c) == c \in Letters
\* [\w-]
IsWord(c) == c \in Letters \cup Digits \cup {"_", "-"}
\* \s
IsSpace(c) == c \in {" ", "\n", "\t"}
\* . (no 's' flag: every character but a line terminator)
IsDot(c) == c # EOF /\ c # "\n"
\* [!?#~/.$]
IsFlag(c) == c \in {"!", "?", "#", "~", "/", ".", "$"}

\* s has the two-character text a b at offset i
Has2(s, i, a, b) == At(s, i) = a /\ At(s, i + 1) = b

NoMatch == -1

\* c is in the character class named cls
InClass(cls, c) ==
    CASE cls = "letter" -> IsLetter(c)
      [] cls = "word" -> IsWord(c)
      [] cls = "space" -> IsSpace(c)
      [] cls = "dot" -> IsDot(c)

\* length of the longest run of characters of class cls from offset i (cls+ or cls*)
Run(cls, s, i) ==
    CHOOSE n \in 0..(IF i < Len(s) THEN Len(s) - i ELSE 0) :
        /\ \A k \in 0..(n - 1) : InClass(cls, At(s, i + k))
        /\ ~InClass(cls, At(s, i + n))

(***************************************************************************)
(* Tokens (lines 14-53): each pattern as the length it matches anchored at *)
(* offset i, or NoMatch                                                    *)
(***************************************************************************)

\* /(.+?)(?=\{\{)|(.+)/ : lazily up to the next "{{" on this line, else the rest of the line
PlaintextPattern(s, i) ==
    LET dots == Run("dot", s, i)
        lazy == {n \in 1..dots : Has2(s, i + n, "{", "{")}
    IN  IF lazy # {} THEN CHOOSE n \in lazy : \A m \in lazy : n <= m
        ELSE IF dots >= 1 THEN dots
        ELSE NoMatch

\* /\{\{/
MacroStartPattern(s, i) == IF Has2(s, i, "{", "{") THEN 2 ELSE NoMatch

\* /[!?#~/.$]/
MacroFlagPattern(s, i) == IF IsFlag(At(s, i)) THEN 1 ELSE NoMatch

\* mutant: /[a-zA-Z]+/, the digits, "_" and "-" of a name left out
IdentifierPatternLettersOnly(s, i) ==
    IF IsLetter(At(s, i)) THEN 1 + Run("letter", s, i + 1) ELSE NoMatch

\* /[a-zA-Z][\w-]*/
IdentifierPattern(s, i) ==
    IF IsLetter(At(s, i)) THEN 1 + Run("word", s, i + 1) ELSE NoMatch

\* mutant: /(?:\s+|(?=[|}]))/, the separator lookahead left out
EndOfIdentifierPatternNoColon(s, i) ==
    IF IsSpace(At(s, i)) THEN Run("space", s, i)
    ELSE IF At(s, i) \in {"|", "}"} THEN 0
    ELSE NoMatch

\* mutant: /(?:\s+|(?=[^]))/, a lookahead that accepts any following character
EndOfIdentifierPatternAnyChar(s, i) ==
    IF IsSpace(At(s, i)) THEN Run("space", s, i)
    ELSE IF At(s, i) # EOF THEN 0
    ELSE NoMatch

\* /(?:\s+|(?=:{1,2})|(?=[|}]))/
EndOfIdentifierPattern(s, i) ==
    IF IsSpace(At(s, i)) THEN Run("space", s, i)
    ELSE IF At(s, i) = ":" THEN 0
    ELSE IF At(s, i) \in {"|", "}"} THEN 0
    ELSE NoMatch

\* mutant: /(?=\})/, a lookahead for one closing brace
BeforeEndPatternOneBrace(s, i) == IF At(s, i) = "}" THEN 0 ELSE NoMatch

\* /(?=\}\})/
BeforeEndPattern(s, i) == IF Has2(s, i, "}", "}") THEN 0 ELSE NoMatch

\* /\}\}/
MacroEndPattern(s, i) == IF Has2(s, i, "}", "}") THEN 2 ELSE NoMatch

\* /::/
DoubleColonPattern(s, i) == IF Has2(s, i, ":", ":") THEN 2 ELSE NoMatch

\* /:/
ColonPattern(s, i) == IF At(s, i) = ":" THEN 1 ELSE NoMatch

\* /=/
EqualsPattern(s, i) == IF At(s, i) = "=" THEN 1 ELSE NoMatch

\* /"/
QuotePattern(s, i) == IF At(s, i) = "\"" THEN 1 ELSE NoMatch

\* /\s+/
WhiteSpacePattern(s, i) == IF IsSpace(At(s, i)) THEN Run("space", s, i) ELSE NoMatch

\* mutant: /[^{}|]/
UnknownPatternNoPipe(s, i) == IF At(s, i) \notin {"{", "}", "|", EOF} THEN 1 ELSE NoMatch

\* /[^{}]/
UnknownPattern(s, i) == IF At(s, i) \notin {"{", "}", EOF} THEN 1 ELSE NoMatch

\* /.+(?=\}\}|\{\{)/ : greedily up to the last "}}" or "{{" on this line
TextPattern(s, i) ==
    LET dots == Run("dot", s, i)
        ends == {n \in 1..dots : Has2(s, i + n, "}", "}") \/ Has2(s, i + n, "{", "{")}
    IN  IF ends # {} THEN CHOOSE n \in ends : \A m \in ends : n >= m
        ELSE NoMatch

\* () => [''] : matches the empty text at every offset
ModePopperPattern(s, i) == 0

TokenNames == {"Plaintext", "MacroStart", "MacroFlag", "MacroIdentifier",
               "MacroEndOfIdentifier", "MacroBeforeEnd", "MacroEnd",
               "DoubleColon", "Colon", "Equals", "Quote", "Identifier",
               "WhiteSpace", "Unknown", "Text", "ModePopper"}

\* the pattern of the token named k, applied at offset i of s
Pattern(k, s, i) ==
    CASE k = "Plaintext" -> PlaintextPattern(s, i)
      [] k = "MacroStart" -> MacroStartPattern(s, i)
      [] k = "MacroFlag" -> MacroFlagPattern(s, i)
      [] k = "MacroIdentifier" -> IdentifierPattern(s, i)
      [] k = "MacroEndOfIdentifier" -> EndOfIdentifierPattern(s, i)
      [] k = "MacroBeforeEnd" -> BeforeEndPattern(s, i)
      [] k = "MacroEnd" -> MacroEndPattern(s, i)
      [] k = "DoubleColon" -> DoubleColonPattern(s, i)
      [] k = "Colon" -> ColonPattern(s, i)
      [] k = "Equals" -> EqualsPattern(s, i)
      [] k = "Quote" -> QuotePattern(s, i)
      [] k = "Identifier" -> IdentifierPattern(s, i)
      [] k = "WhiteSpace" -> WhiteSpacePattern(s, i)
      [] k = "Unknown" -> UnknownPattern(s, i)
      [] k = "Text" -> TextPattern(s, i)
      [] k = "ModePopper" -> ModePopperPattern(s, i)

\* mutant: ModePopper created without group: Lexer.SKIPPED
SkippedNotModePopper(k) == k \in {"MacroEndOfIdentifier", "MacroBeforeEnd", "WhiteSpace"}

\* group: Lexer.SKIPPED (lines 26, 27, 41, 52)
Skipped(k) == k \in {"MacroEndOfIdentifier", "MacroBeforeEnd", "WhiteSpace", "ModePopper"}

\* pop_mode given to createToken itself (line 52)
CreatedPopMode(k) == k = "ModePopper"

(***************************************************************************)
(* Definition helpers enter / exits / using (lines 155-200), as functions  *)
(* of the registry: the PUSH_MODE and POP_MODE fields of the global token  *)
(* types and the module-level enterModesMap.  thrown is the Error the call *)
(* threw, NoError when it returned.                                        *)
(***************************************************************************)
ErrUndefinedToken == "Token must not be undefined"
ErrEnterConflict == "Token already is set to enter mode"
ErrUsingEntering == "Token is already marked to enter a mode"

\* the token types as createToken leaves them, and the empty enterModesMap (line 56)
CreatedRegistry ==
    [PUSH_MODE |-> [k \in TokenNames |-> NoMode],
     POP_MODE |-> [k \in TokenNames |-> CreatedPopMode(k)],
     enterModesMap |-> [k \in TokenNames |-> NoMode],
     thrown |-> NoError]

\* mutant: token.POP_MODE = !mode
exitsNegated(reg, token, mode) ==
    IF token = Undefined THEN [reg EXCEPT !.thrown = ErrUndefinedToken]
    ELSE [reg EXCEPT !.POP_MODE[token] = (mode = NoMode), !.thrown = NoError]

\* function exits(token, mode), lines 179-183
exits(reg, token, mode) ==
    IF token = Undefined THEN [reg EXCEPT !.thrown = ErrUndefinedToken]
    ELSE [reg EXCEPT !.POP_MODE[token] = (mode # NoMode), !.thrown = NoError]

\* mutant: enter() records the mode in enterModesMap but never sets token.PUSH_MODE
enterNoPush(reg, token, mode, andExits) ==
    IF token = Undefined THEN [reg EXCEPT !.thrown = ErrUndefinedToken]
    ELSE IF reg.enterModesMap[token] # NoMode /\ reg.enterModesMap[token] # mode
         THEN [reg EXCEPT !.thrown = ErrEnterConflict]
    ELSE LET r == IF andExits # NoMode THEN exits(reg, token, andExits) ELSE reg
         IN  [r EXCEPT !.enterModesMap[token] = mode, !.thrown = NoError]

\* mutant: enter() ignores andExits
enterIgnoresAndExits(reg, token, mode, andExits) ==
    IF token = Undefined THEN [reg EXCEPT !.thrown = ErrUndefinedToken]
    ELSE IF reg.enterModesMap[token] # NoMode /\ reg.enterModesMap[token] # mode
         THEN [reg EXCEPT !.thrown = ErrEnterConflict]
    ELSE [reg EXCEPT !.PUSH_MODE[token] = mode,
                     !.enterModesMap[token] = mode,
                     !.thrown = NoError]

\* mutant: the andExits call made before the conflict check
enterExitsFirst(reg, token, mode, andExits) ==
    IF token = Undefined THEN [reg EXCEPT !.thrown = ErrUndefinedToken]
    ELSE LET r == IF andExits # NoMode THEN exits(reg, token, andExits) ELSE reg
         IN  IF reg.enterModesMap[token] # NoMode /\ reg.enterModesMap[token] # mode
             THEN [r EXCEPT !.thrown = ErrEnterConflict]
             ELSE [r EXCEPT !.PUSH_MODE[token] = mode,
                            !.enterModesMap[token] = mode,
                            !.thrown = NoError]

\* function enter(token, mode, { andExits }), lines 155-166
enter(reg, token, mode, andExits) ==
    IF token = Undefined THEN [reg EXCEPT !.thrown = ErrUndefinedToken]
    ELSE IF reg.enterModesMap[token] # NoMode /\ reg.enterModesMap[token] # mode
         THEN [reg EXCEPT !.thrown = ErrEnterConflict]
    ELSE LET r == IF andExits # NoMode THEN exits(reg, token, andExits) ELSE reg
         IN  [r EXCEPT !.PUSH_MODE[token] = mode,
                       !.enterModesMap[token] = mode,
                       !.thrown = NoError]

\* function using(token), lines 194-200
using(reg, token) ==
    IF token = Undefined THEN [reg EXCEPT !.thrown = ErrUndefinedToken]
    ELSE IF reg.enterModesMap[token] # NoMode
         THEN [reg EXCEPT !.thrown = ErrUsingEntering]
    ELSE [reg EXCEPT !.thrown = NoError]

(***************************************************************************)
(* Def (lines 58-103): per mode the ordered list of helper calls, each     *)
(* returning the token it was given                                        *)
(***************************************************************************)
EnterCall(token, mode, andExits) ==
    [fn |-> "enter", token |-> token, mode |-> mode, andExits |-> andExits]
ExitsCall(token, mode) ==
    [fn |-> "exits", token |-> token, mode |-> mode, andExits |-> NoMode]
UsingCall(token) ==
    [fn |-> "using", token |-> token, mode |-> NoMode, andExits |-> NoMode]

\* mutant: MacroStart entered with andExits: modes.plaintext
PlaintextModeDefExits ==
    << EnterCall("MacroStart", macro_def, plaintext),
       UsingCall("Plaintext") >>

\* [modes.plaintext], lines 60-63
PlaintextModeDef ==
    << EnterCall("MacroStart", macro_def, NoMode),
       UsingCall("Plaintext") >>

\* [modes.macro_def], lines 64-75
MacroDefModeDef ==
    << ExitsCall("MacroEnd", macro_def),
       UsingCall("MacroFlag"),
       UsingCall("WhiteSpace"),
       EnterCall("MacroIdentifier", macro_identifier_end, NoMode) >>

\* mutant: MacroEndOfIdentifier entered without andExits
MacroIdentifierEndModeDefNoExit ==
    << ExitsCall("MacroBeforeEnd", macro_identifier_end),
       EnterCall("MacroEndOfIdentifier", macro_args, NoMode) >>

\* [modes.macro_identifier_end], lines 76-82
MacroIdentifierEndModeDef ==
    << ExitsCall("MacroBeforeEnd", macro_identifier_end),
       EnterCall("MacroEndOfIdentifier", macro_args, macro_identifier_end) >>

\* mutant: macro_args_mode without the nested MacroStart
MacroArgsModeDefNoNesting ==
    << UsingCall("DoubleColon"),
       UsingCall("Colon"),
       UsingCall("Equals"),
       UsingCall("Quote"),
       UsingCall("Identifier"),
       UsingCall("WhiteSpace"),
       UsingCall("Unknown"),
       ExitsCall("ModePopper", macro_args) >>

\* mutant: macro_args_mode without the closing ModePopper
MacroArgsModeDefNoPopper ==
    << EnterCall("MacroStart", macro_def, NoMode),
       UsingCall("DoubleColon"),
       UsingCall("Colon"),
       UsingCall("Equals"),
       UsingCall("Quote"),
       UsingCall("Identifier"),
       UsingCall("WhiteSpace"),
       UsingCall("Unknown") >>

\* mutant: macro_args_mode with Colon listed before DoubleColon
MacroArgsModeDefColonFirst ==
    << EnterCall("MacroStart", macro_def, NoMode),
       UsingCall("Colon"),
       UsingCall("DoubleColon"),
       UsingCall("Equals"),
       UsingCall("Quote"),
       UsingCall("Identifier"),
       UsingCall("WhiteSpace"),
       UsingCall("Unknown"),
       ExitsCall("ModePopper", macro_args) >>

\* [modes.macro_args], lines 83-100
MacroArgsModeDef ==
    << EnterCall("MacroStart", macro_def, NoMode),
       UsingCall("DoubleColon"),
       UsingCall("Colon"),
       UsingCall("Equals"),
       UsingCall("Quote"),
       UsingCall("Identifier"),
       UsingCall("WhiteSpace"),
       UsingCall("Unknown"),
       ExitsCall("ModePopper", macro_args) >>

\* mutant: the default mode set to the macro header mode
defaultModeMacroDef == macro_def

\* defaultMode: modes.plaintext, line 102
defaultMode == plaintext

Def ==
    [modes |-> [m \in modes |->
                   CASE m = plaintext -> PlaintextModeDef
                     [] m = macro_def -> MacroDefModeDef
                     [] m = macro_identifier_end -> MacroIdentifierEndModeDef
                     [] m = macro_args -> MacroArgsModeDef],
     defaultMode |-> defaultMode]

\* one helper call applied to the registry
ApplyCall(reg, c) ==
    CASE c.fn = "enter" -> enter(reg, c.token, c.mode, c.andExits)
      [] c.fn = "exits" -> exits(reg, c.token, c.mode)
      [] c.fn = "using" -> using(reg, c.token)

\* the calls of the object literal run in source order; a throw ends the evaluation
RECURSIVE ApplyCalls(_, _)
ApplyCalls(reg, calls) ==
    IF calls = <<>> \/ reg.thrown # NoError THEN reg
    ELSE ApplyCalls(ApplyCall(reg, Head(calls)), Tail(calls))

\* the calls of Def in evaluation order
LoadedCalls ==
    PlaintextModeDef \o MacroDefModeDef \o MacroIdentifierEndModeDef \o MacroArgsModeDef

\* the registry once the module has evaluated Def
LoadedRegistry == ApplyCalls(CreatedRegistry, LoadedCalls)

Last(calls) == calls[Len(calls)]

\* the tokens Def passes to using(); no call of Def throws
LoadedUsed == {LoadedCalls[i].token : i \in {j \in 1..Len(LoadedCalls) : LoadedCalls[j].fn = "using"}}
NoCall == [fn |-> "none", token |-> Undefined, mode |-> NoMode, andExits |-> NoMode]

\* the ordered token types of a mode: what the helper calls returned
ModeTokens(m) == [i \in 1..Len(Def.modes[m]) |-> Def.modes[m][i].token]

(***************************************************************************)
(* Inputs: every text over Alphabet up to MaxLen characters, and the       *)
(* well-formed macros {{name(sep arg)*}} and {{n1:{{n2:...}}}}             *)
(***************************************************************************)
Alphabet == {"{", "}", ":", "a", " ", "\n", "|"}

ShortInputs == UNION {[1..n -> Alphabet] : n \in 0..MaxLen}

Open == <<"{", "{">>
Close == <<"}", "}">>
MacroNames == {<<"a">>, <<"n", "1">>}
ArgNames == {<<"b">>, <<"c", "-", "1">>}
Separators == {<<":">>, <<":", ":">>}

ArgLists == UNION {[1..n -> [sep : Separators, id : ArgNames]] : n \in 0..MaxArgs}

RECURSIVE RenderArgs(_)
RenderArgs(args) ==
    IF args = <<>> THEN <<>>
    ELSE Head(args).sep \o Head(args).id \o RenderArgs(Tail(args))

\* {{name sep1 arg1 sep2 arg2 ...}}
RenderMacro(name, args) == Open \o name \o RenderArgs(args) \o Close

NameLists == UNION {[1..n -> MacroNames] : n \in 2..(MaxDepth + 1)}

\* {{n1 sep {{n2 sep {{n3}}}}}}
RECURSIVE RenderNested(_, _)
RenderNested(names, sep) ==
    IF Len(names) = 1 THEN Open \o names[1] \o Close
    ELSE Open \o names[1] \o sep \o RenderNested(Tail(names), sep) \o Close

\* a macro cut off at the end of its name or inside its arguments
Unterminated == {Open \o n \o RenderArgs(a) : n \in MacroNames, a \in ArgLists}

\* a macro name directly followed by one character, then nothing, "}}" or "b}}"
FollowChars == {"=", "\"", "!", "\t", "|", "}", "{"}
Boundary ==
    {Open \o n \o <<c>> \o t :
        n \in MacroNames, c \in FollowChars, t \in {<<>>, Close, <<"b">> \o Close}}

MacroInputs ==
    {RenderMacro(n, a) : n \in MacroNames, a \in ArgLists}
        \cup {RenderNested(ns, sep) : ns \in NameLists, sep \in Separators}
        \cup Unterminated
        \cup Boundary

Inputs == ShortInputs \cup MacroInputs

Policies == {"abort", "skip"}

NoResult == [input |-> <<>>, tokens |-> <<>>, errors |-> <<>>, stack |-> <<>>]

(***************************************************************************)
(* The mode stack machine run by tokenize(input)                           *)
(***************************************************************************)
Top(stack) == stack[Len(stack)]
Pop(stack) == SubSeq(stack, 1, Len(stack) - 1)

\* position in the mode's list of the first token whose pattern matches at i, 0 if none
FirstMatch(m, s, i) ==
    LET cands == ModeTokens(m)
        hits == {j \in 1..Len(cands) : Pattern(cands[j], s, i) # NoMatch}
    IN  IF hits = {} THEN 0 ELSE CHOOSE j \in hits : \A h \in hits : j <= h

Image(s, i, n) == SubSeq(s, i + 1, i + n)

ErrNoViable == "no viable token"
ErrUnterminated == "unterminated construct"
ErrUnderflow == "stack underflow"

LexicalError(at, message, m) == [offset |-> at, message |-> message, mode |-> m]

\* mutant: the mode stack of the call before is kept
FreshKeepsStack ==
    /\ offset' = 0
    /\ modeStack' = modeStack
    /\ tokens' = <<>>
    /\ errors' = <<>>
    /\ matched' = <<>>
    /\ pc' = "scan"

\* step 1 of tokenize: stack = [defaultMode], offset = 0, empty output
Fresh ==
    /\ offset' = 0
    /\ modeStack' = <<Def.defaultMode>>
    /\ tokens' = <<>>
    /\ errors' = <<>>
    /\ matched' = <<>>
    /\ pc' = "scan"

\* tokenize(input): a fresh stack, offset and result
Tokenize ==
    /\ pc = "idle"
    /\ input' \in Inputs
    /\ Fresh
    /\ UNCHANGED <<previous, policy, defVars>>

\* the first candidate of the top mode that matches: consume, emit, pop, push
Match ==
    /\ pc = "scan"
    /\ offset < Len(input)
    /\ FirstMatch(Top(modeStack), input, offset) # 0
    /\ LET m == Top(modeStack)
           k == ModeTokens(m)[FirstMatch(m, input, offset)]
           n == Pattern(k, input, offset)
           underflow == POP_MODE[k] /\ Len(modeStack) = 1
           popped == IF POP_MODE[k] /\ ~underflow THEN Pop(modeStack) ELSE modeStack
       IN  /\ offset' = offset + n
           /\ tokens' = IF Skipped(k) THEN tokens
                        ELSE Append(tokens, [type |-> k,
                                             image |-> Image(input, offset, n),
                                             startOffset |-> offset])
           /\ matched' = Append(matched, [type |-> k, mode |-> m, at |-> offset,
                                          len |-> n, stack |-> modeStack])
           /\ IF underflow
              THEN /\ errors' = Append(errors, LexicalError(offset, ErrUnderflow, m))
                   /\ modeStack' = modeStack
                   /\ pc' = "done"
              ELSE /\ errors' = errors
                   /\ modeStack' = IF PUSH_MODE[k] # NoMode
                                   THEN Append(popped, PUSH_MODE[k])
                                   ELSE popped
                   /\ pc' = "scan"
    /\ UNCHANGED <<input, previous, policy, defVars>>

\* no candidate of the top mode matches: record the error, then abort or skip one character
NoViableToken ==
    /\ pc = "scan"
    /\ offset < Len(input)
    /\ FirstMatch(Top(modeStack), input, offset) = 0
    /\ errors' = Append(errors, LexicalError(offset, ErrNoViable, Top(modeStack)))
    /\ IF policy = "abort"
       THEN pc' = "done" /\ offset' = offset
       ELSE pc' = "scan" /\ offset' = offset + 1
    /\ UNCHANGED <<input, modeStack, tokens, matched, previous, policy, defVars>>

\* end of input: an open construct is reported, the result is returned
EndOfInput ==
    /\ pc = "scan"
    /\ offset >= Len(input)
    /\ errors' = IF Len(modeStack) > 1
                 THEN Append(errors, LexicalError(offset, ErrUnterminated, Top(modeStack)))
                 ELSE errors
    /\ pc' = "done"
    /\ UNCHANGED <<input, offset, modeStack, tokens, matched, previous, policy, defVars>>

(***************************************************************************)
(* The lexer: the module has been loaded (Def evaluated), tokenize runs    *)
(***************************************************************************)
Init ==
    /\ input = <<>>
    /\ offset = 0
    /\ modeStack = <<Def.defaultMode>>
    /\ tokens = <<>>
    /\ errors = <<>>
    /\ matched = <<>>
    /\ previous = NoResult
    /\ pc = "idle"
    /\ policy \in Policies
    /\ PUSH_MODE = LoadedRegistry.PUSH_MODE
    /\ POP_MODE = LoadedRegistry.POP_MODE
    /\ enterModesMap = LoadedRegistry.enterModesMap
    /\ thrown = LoadedRegistry.thrown
    /\ lastCall = Last(LoadedCalls)
    /\ usedTokens = LoadedUsed

Next ==
    \/ Tokenize
    \/ Match
    \/ NoViableToken
    \/ EndOfInput

Spec == Init /\ [][Next]_vars

(***************************************************************************)
(* The shared instance called again and again: MacroLexer.instance is one  *)
(* lexer, every tokenize call runs on it                                   *)
(***************************************************************************)
MaxCallLen == 3

CallInputs ==
    UNION {[1..n -> {"{", "a", "}"}] : n \in 0..MaxCallLen}
        \cup {Open \o <<"a">> \o Close, Open \o <<"a", ":">>, Open \o <<"a", ":", "a">>,
              <<"a", "\n">>}

\* the first call on the instance
TokenizeFirst ==
    /\ pc = "idle"
    /\ input' \in CallInputs
    /\ Fresh
    /\ UNCHANGED <<previous, policy, defVars>>

\* a further call, after the one before has returned
TokenizeAgain ==
    /\ pc = "done"
    /\ input' \in CallInputs
    /\ previous' = [input |-> input, tokens |-> tokens, errors |-> errors,
                    stack |-> modeStack]
    /\ Fresh
    /\ UNCHANGED <<policy, defVars>>

CallsNext ==
    \/ TokenizeFirst
    \/ TokenizeAgain
    \/ Match
    \/ NoViableToken
    \/ EndOfInput

CallsSpec == Init /\ [][CallsNext]_vars

(***************************************************************************)
(* The definition stage: any sequence of helper calls on the token types   *)
(***************************************************************************)
\* the token and mode arguments the calls are drawn from; the modes are those
\* Def passes to the helpers
DefTokens == {"MacroStart", "MacroEndOfIdentifier", Undefined}
DefModes == {macro_def, macro_identifier_end, macro_args}

Registry ==
    [PUSH_MODE |-> PUSH_MODE, POP_MODE |-> POP_MODE,
     enterModesMap |-> enterModesMap, thrown |-> thrown]

SetRegistry(reg) ==
    /\ PUSH_MODE' = reg.PUSH_MODE
    /\ POP_MODE' = reg.POP_MODE
    /\ enterModesMap' = reg.enterModesMap
    /\ thrown' = reg.thrown

CallEnter(token, mode, andExits) ==
    /\ SetRegistry(enter(Registry, token, mode, andExits))
    /\ lastCall' = EnterCall(token, mode, andExits)
    /\ usedTokens' = usedTokens
    /\ UNCHANGED lexVars

CallExits(token, mode) ==
    /\ SetRegistry(exits(Registry, token, mode))
    /\ lastCall' = ExitsCall(token, mode)
    /\ usedTokens' = usedTokens
    /\ UNCHANGED lexVars

CallUsing(token) ==
    /\ SetRegistry(using(Registry, token))
    /\ lastCall' = UsingCall(token)
    /\ usedTokens' = IF using(Registry, token).thrown = NoError
                     THEN usedTokens \cup {token}
                     ELSE usedTokens
    /\ UNCHANGED lexVars

DefInit ==
    /\ input = <<>>
    /\ offset = 0
    /\ modeStack = <<Def.defaultMode>>
    /\ tokens = <<>>
    /\ errors = <<>>
    /\ matched = <<>>
    /\ previous = NoResult
    /\ pc = "idle"
    /\ policy \in Policies
    /\ PUSH_MODE = CreatedRegistry.PUSH_MODE
    /\ POP_MODE = CreatedRegistry.POP_MODE
    /\ enterModesMap = CreatedRegistry.enterModesMap
    /\ thrown = CreatedRegistry.thrown
    /\ lastCall = NoCall
    /\ usedTokens = {}

DefNext ==
    \/ \E t \in DefTokens, m \in DefModes, x \in DefModes \cup {NoMode} : CallEnter(t, m, x)
    \/ \E t \in DefTokens, m \in DefModes \cup {NoMode} : CallExits(t, m)
    \/ \E t \in DefTokens : CallUsing(t)

DefSpec == DefInit /\ [][DefNext]_vars

(***************************************************************************)
(* Properties                                                              *)
(***************************************************************************)
Tok(type, image, at) == [type |-> type, image |-> image, startOffset |-> at]

\* the text holds the opening marker "{{" somewhere
HasMarker(s) == \E i \in 0..(Len(s) - 2) : Has2(s, i, "{", "{")

HasError(message) == \E i \in 1..Len(errors) : errors[i].message = message

\* the tokens of the argument list args whose text starts at offset at
RECURSIVE ArgTokens(_, _)
ArgTokens(args, at) ==
    IF args = <<>> THEN <<>>
    ELSE LET a == Head(args)
         IN  << Tok(IF a.sep = <<":">> THEN "Colon" ELSE "DoubleColon", a.sep, at),
                Tok("Identifier", a.id, at + Len(a.sep)) >>
                 \o ArgTokens(Tail(args), at + Len(a.sep) + Len(a.id))

\* the tokens of RenderNested(names, sep) placed at offset at
RECURSIVE NestedTokens(_, _, _)
NestedTokens(names, sep, at) ==
    LET n == names[1]
        inner == NestedTokens(Tail(names), sep, at + 2 + Len(n) + Len(sep))
        innerLen == Len(RenderNested(Tail(names), sep))
    IN  IF Len(names) = 1
        THEN << Tok("MacroStart", Open, at), Tok("MacroIdentifier", n, at + 2),
                Tok("MacroEnd", Close, at + 2 + Len(n)) >>
        ELSE << Tok("MacroStart", Open, at), Tok("MacroIdentifier", n, at + 2),
                Tok(IF sep = <<":">> THEN "Colon" ELSE "DoubleColon", sep, at + 2 + Len(n)) >>
                 \o inner
                 \o << Tok("MacroEnd", Close, at + 2 + Len(n) + Len(sep) + innerLen) >>

\* the text starts with "{{" and ends with "}}"
IsDelimited(s) == Has2(s, 0, "{", "{") /\ Has2(s, Len(s) - 2, "}", "}")

\* C1: for every (non-empty) input without "{{", tokenize returns exactly one
\* Plaintext token spanning the whole input, and no error.
C1_PlaintextSpansInput ==
    (pc = "done" /\ input # <<>> /\ ~HasMarker(input))
        => /\ tokens = << Tok("Plaintext", input, 0) >>
           /\ errors = <<>>

\* C2: "{{" name "}}" yields [MacroStart, MacroIdentifier(name), MacroEnd], no error,
\* and the mode stack is back at [plaintext_mode].
C2_SimpleMacro ==
    \A n \in MacroNames :
        (pc = "done" /\ Len(input) = Len(n) + 4 /\ input = RenderMacro(n, <<>>))
            => /\ tokens = << Tok("MacroStart", Open, 0),
                              Tok("MacroIdentifier", n, 2),
                              Tok("MacroEnd", Close, 2 + Len(n)) >>
               /\ errors = <<>>
               /\ modeStack = <<plaintext>>

C2_Witness ==
    /\ pc = "done"
    /\ input = RenderMacro(<<"n", "1">>, <<>>)
    /\ Len(tokens) = 3
    /\ Len(matched) = 4

\* C3: "{{" name (sep arg)* "}}" yields MacroStart, MacroIdentifier(name), then per
\* separator in source order Colon or DoubleColon followed by Identifier(arg), then
\* MacroEnd, with no error and final stack depth 1.
C3_MacroWithArgs ==
    (pc = "done" /\ IsDelimited(input)) =>
    \A n \in MacroNames, a \in ArgLists :
        input = RenderMacro(n, a)
            => /\ tokens = << Tok("MacroStart", Open, 0), Tok("MacroIdentifier", n, 2) >>
                             \o ArgTokens(a, 2 + Len(n))
                             \o << Tok("MacroEnd", Close, Len(input) - 2) >>
               /\ errors = <<>>
               /\ Len(modeStack) = 1

C3_Witness ==
    /\ pc = "done"
    /\ \E n \in MacroNames, a \in ArgLists :
          /\ Len(a) = 2 /\ a[1].sep = <<":">> /\ a[2].sep = <<":", ":">>
          /\ input = RenderMacro(n, a)
    /\ Len(tokens) = 7

\* offset at which the k-th macro (1 = outermost) of RenderNested(names, sep) starts
RECURSIVE NestedStart(_, _, _)
NestedStart(names, sep, k) ==
    IF k = 1 THEN 0
    ELSE 2 + Len(names[1]) + Len(sep) + NestedStart(Tail(names), sep, k - 1)

\* plaintext_mode, then macro_def_mode macro_args_mode per enclosing macro, then macro_def_mode
RECURSIVE NestedStack(_)
NestedStack(k) ==
    IF k = 1 THEN <<plaintext, macro_def>>
    ELSE NestedStack(k - 1) \o <<macro_args, macro_def>>

\* C4: for nested macros {{n1:{{n2:...}}}} the inner Start/Identifier/End tokens lie
\* between the outer identifier and the outer End; while the k-th macro is scanned the
\* enclosing macro_args_mode entries stay beneath its macro_def_mode; and the stack is
\* at depth 1 only before the first MacroStart and after the last MacroEnd.
C4_NestedMacros ==
    (pc \in {"scan", "done"} /\ IsDelimited(input)) =>
    \A ns \in NameLists, sep \in Separators :
        input = RenderNested(ns, sep)
            => /\ pc = "done" =>
                     /\ tokens = NestedTokens(ns, sep, 0)
                     /\ errors = <<>>
                     /\ modeStack = <<plaintext>>
               /\ Len(modeStack) = 1 => offset \in {0, Len(input)}
               /\ \A k \in 1..Len(ns) :
                     (/\ offset > NestedStart(ns, sep, k)
                      /\ offset < Len(input) - 2 * (k - 1))
                        => /\ Len(modeStack) >= 2 * k
                           /\ SubSeq(modeStack, 1, 2 * k) = NestedStack(k)

C4_Witness ==
    /\ pc = "scan"
    /\ \E ns \in NameLists, sep \in Separators :
          /\ Len(ns) = 3
          /\ input = RenderNested(ns, sep)
          /\ offset > NestedStart(ns, sep, 3)
    /\ modeStack = <<plaintext, macro_def, macro_args, macro_def, macro_args,
                     macro_def, macro_identifier_end>>

\* C5: when the end of input is reached with stack depth > 1 the call returns with
\* the tokens collected so far and an "unterminated construct" error; for "{{name"
\* the tokens are [MacroStart, MacroIdentifier(name)].
C5_Unterminated ==
    /\ (pc = "done" /\ offset >= Len(input) /\ Len(modeStack) > 1)
          => HasError(ErrUnterminated)
    /\ (pc = "scan" /\ offset >= Len(input)) => ENABLED EndOfInput
    /\ \A n \in MacroNames :
          (pc = "done" /\ input = Open \o n)
              => /\ tokens = << Tok("MacroStart", Open, 0), Tok("MacroIdentifier", n, 2) >>
                 /\ errors = << LexicalError(Len(input), ErrUnterminated,
                                             macro_identifier_end) >>

C5_Witness ==
    /\ pc = "done"
    /\ input = Open \o <<"n", "1">>
    /\ Len(modeStack) = 3
    /\ HasError(ErrUnterminated)

\* (matched only grows and input is fixed during a call, so checking the latest match
\* in every state checks every match)
\* C6: every match commits to the first token type, in the listed order of the mode
\* on top of the stack, whose pattern matches at the offset: in macro_args_mode "::"
\* is one DoubleColon, a letter-initial run is an Identifier (not Unknown), and in
\* plaintext_mode "{{" is MacroStart (not Plaintext).
C6_OrderedAlternation ==
    \A r \in {Len(matched)} \ {0} :
        LET x == matched[r]
            cands == ModeTokens(x.mode)
        IN  /\ \E j \in 1..Len(cands) :
                  /\ cands[j] = x.type
                  /\ x.len = Pattern(x.type, input, x.at)
                  /\ x.len # NoMatch
                  /\ \A h \in 1..(j - 1) : Pattern(cands[h], input, x.at) = NoMatch
            /\ (x.mode = macro_args /\ Has2(input, x.at, ":", ":"))
                  => x.type = "DoubleColon" /\ x.len = 2
            /\ (x.mode = macro_args /\ IsLetter(At(input, x.at)))
                  => x.type = "Identifier" /\ x.len = 1 + Run("word", input, x.at + 1)
            /\ (x.mode = plaintext /\ Has2(input, x.at, "{", "{"))
                  => x.type = "MacroStart" /\ x.len = 2

C6_Witness ==
    /\ pc = "done"
    /\ \E r \in 1..Len(matched) :
          matched[r].type = "DoubleColon" /\ ColonPattern(input, matched[r].at) = 1
    /\ \E r \in 1..Len(matched) :
          matched[r].type = "Identifier" /\ UnknownPattern(input, matched[r].at) = 1
    /\ \E r \in 1..Len(matched) :
          matched[r].type = "MacroStart" /\ PlaintextPattern(input, matched[r].at) > 2

\* C7: the mode stack is never empty and its bottom entry is plaintext_mode.
C7_StackBottom ==
    /\ Len(modeStack) >= 1
    /\ modeStack[1] = plaintext

C7_Witness ==
    /\ pc = "done"
    /\ Len(modeStack) = 1
    /\ \E r \in 1..Len(matched) : Len(matched[r].stack) >= 4
    /\ \E r \in 1..Len(matched) : matched[r].type = "ModePopper"

NonEmitting == {"WhiteSpace", "MacroEndOfIdentifier", "MacroBeforeEnd", "ModePopper"}

\* C8: no emitted token is of a non-emitting kind (WhiteSpace, MacroEndOfIdentifier,
\* MacroBeforeEnd, ModePopper), and every emitted token has a non-empty lexeme.
C8_NoSkippedTokens ==
    \A t \in 1..Len(tokens) :
        /\ tokens[t].type \notin NonEmitting
        /\ Len(tokens[t].image) >= 1

C8_Witness ==
    /\ pc = "done"
    /\ Len(tokens) >= 2
    /\ \A k \in {"WhiteSpace", "MacroEndOfIdentifier", "ModePopper"} :
          \E r \in 1..Len(matched) : matched[r].type = k /\ matched[r].mode # plaintext

\* zero-length matches lead from macro_identifier_end to macro_args_mode or
\* macro_def_mode and from macro_args_mode to macro_def_mode, never back
Rank(m) ==
    CASE m = macro_identifier_end -> 2
      [] m = macro_args -> 1
      [] OTHER -> 0

Measure == 3 * (Len(input) - offset) + Rank(Top(modeStack))

\* C10: no iteration of the scan loop leaves both the offset and the mode stack
\* unchanged, a zero-length match changes the mode stack, and every iteration
\* lowers a measure bounded below by 0, so tokenize terminates.
C10_Progress ==
    [][(pc = "scan" /\ pc' = "scan")
          => /\ offset' > offset \/ modeStack' # modeStack
             /\ offset' = offset => modeStack' # modeStack
             /\ offset' >= offset
             /\ Measure' < Measure
             /\ Measure' >= 0]_vars

C10_Witness ==
    /\ pc = "done"
    /\ \E r \in 1..(Len(matched) - 1) :
          /\ matched[r].type = "MacroEndOfIdentifier" /\ matched[r].len = 0
          /\ matched[r + 1].type = "ModePopper"
          /\ matched[r + 1].at = matched[r].at

\* C9: once enter() has set a token's push target no helper call changes it: enter()
\* on that token with another mode throws and leaves PUSH_MODE, POP_MODE and
\* enterModesMap as they were, and enter() with the same mode succeeds.
C9_PushTargetFixed ==
    [][/\ \A t \in TokenNames :
             enterModesMap[t] # NoMode
                 => /\ enterModesMap'[t] = enterModesMap[t]
                    /\ PUSH_MODE'[t] = PUSH_MODE[t]
       /\ (lastCall'.fn = "enter" /\ lastCall'.token # Undefined)
             => IF enterModesMap[lastCall'.token] \notin {NoMode, lastCall'.mode}
                THEN /\ thrown' = ErrEnterConflict
                     /\ UNCHANGED <<PUSH_MODE, POP_MODE, enterModesMap>>
                ELSE /\ thrown' = NoError
                     /\ PUSH_MODE'[lastCall'.token] = lastCall'.mode
                     /\ enterModesMap'[lastCall'.token] = lastCall'.mode]_vars

C9_Witness ==
    /\ thrown = ErrEnterConflict
    /\ lastCall.fn = "enter"
    /\ lastCall.andExits # NoMode
    /\ POP_MODE[lastCall.token] = FALSE
    /\ PUSH_MODE[lastCall.token] \in DefModes \ {lastCall.mode}

ErrorAt(at) == \E i \in 1..Len(errors) : errors[i].offset = at
TokenAt(at) == \E i \in 1..Len(tokens) : tokens[i].startOffset = at

\* what may follow a macro name: whitespace, ":" or "::", "|", or "}}"
AllowedAfterName(s, e) ==
    \/ IsSpace(At(s, e))
    \/ At(s, e) = ":"
    \/ At(s, e) = "|"
    \/ Has2(s, e, "}", "}")

\* C11: when input follows a MacroIdentifier, no lexical error is recorded at the
\* offset right after it only if whitespace, ":" / "::", "|" or "}}" follows; for any
\* other character (a single "}" included) an error is recorded at that offset and no
\* token starts there.
C11_IdentifierBoundary ==
    pc = "done" =>
        \A r \in 1..Len(matched) :
            LET e == matched[r].at + matched[r].len
            IN  (matched[r].type = "MacroIdentifier" /\ e < Len(input))
                    => /\ ~ErrorAt(e) => AllowedAfterName(input, e)
                       /\ ~AllowedAfterName(input, e) => ErrorAt(e) /\ ~TokenAt(e)

C11_Witness ==
    /\ pc = "done"
    /\ \E r \in 1..Len(matched) :
          LET e == matched[r].at + matched[r].len
          IN  /\ matched[r].type = "MacroIdentifier"
              /\ At(input, e) = "}" /\ At(input, e + 1) \notin {"}", EOF}
              /\ \E i \in 1..Len(errors) :
                    errors[i] = LexicalError(e, ErrNoViable, macro_def)
              /\ ~TokenAt(e)

C13_OneIdentifierPerMacro ==
    \A i, j \in 1..Len(matched) :
        (/\ i < j
         /\ matched[i].type = "MacroIdentifier"
         /\ matched[j].type = "MacroIdentifier"
         /\ Len(matched[i].stack) = Len(matched[j].stack))
            => \E k \in (i + 1)..(j - 1) :
                  /\ matched[k].type = "MacroEnd"
                  /\ Len(matched[k].stack) = Len(matched[i].stack)

\* C14: no "no viable token" error is recorded while macro_args_mode is on top of
\* the stack.
C14_ArgsNeverStuck ==
    \A i \in 1..Len(errors) :
        errors[i].message = ErrNoViable => errors[i].mode # macro_args

C14_Witness ==
    /\ pc = "done"
    /\ \E r \in 1..Len(matched), i \in 1..Len(errors) :
          /\ matched[r].type = "ModePopper"
          /\ errors[i] = LexicalError(matched[r].at, ErrNoViable, macro_def)
          /\ At(input, matched[r].at) = "{"

\* the step is a match of the token type k
Matches(k) == matched' # matched /\ matched'[Len(matched')].type = k

\* C15: ModePopper matches only where no earlier candidate of macro_args_mode does
\* (the next character is "}" or a "{" not followed by "{"), and it only pops
\* macro_args_mode: offset, tokens, errors and the stack below the top are unchanged.
C15_ModePopperFrame ==
    [][Matches("ModePopper")
          => /\ Top(modeStack) = macro_args
             /\ \/ At(input, offset) = "}"
                \/ At(input, offset) = "{" /\ At(input, offset + 1) # "{"
             /\ \A j \in 1..(Len(ModeTokens(macro_args)) - 1) :
                   Pattern(ModeTokens(macro_args)[j], input, offset) = NoMatch
             /\ modeStack' = Pop(modeStack)
             /\ offset' = offset
             /\ tokens' = tokens
             /\ errors' = errors]_vars

C15_Witness ==
    /\ pc = "done"
    /\ Len(tokens) >= 3
    /\ \E r \in 1..Len(matched) :
          /\ matched[r].type = "ModePopper" /\ At(input, matched[r].at) = "}"
          /\ Len(matched[r].stack) = 5

\* C16: a MacroEndOfIdentifier match pops macro_identifier_end and pushes
\* macro_args_mode: the depth is the same before and after, the entries below the top
\* are unchanged, and no token is emitted.
C16_ReplaceTop ==
    [][Matches("MacroEndOfIdentifier")
          => /\ Top(modeStack) = macro_identifier_end
             /\ Top(modeStack') = macro_args
             /\ Len(modeStack') = Len(modeStack)
             /\ Pop(modeStack') = Pop(modeStack)
             /\ tokens' = tokens
             /\ errors' = errors]_vars

C16_Witness ==
    /\ pc = "done"
    /\ \E r \in 1..Len(matched) :
          /\ matched[r].type = "MacroEndOfIdentifier" /\ matched[r].len = 0
          /\ Len(matched[r].stack) = 5

\* the latest match is of the token type k
LastMatched(k) == matched # <<>> /\ matched[Len(matched)].type = k

\* C17: after a MacroBeforeEnd match the very next step is the MacroEnd match that
\* consumes "}}" at the same offset: no error and no other match comes between.
C17_BeforeEndThenEnd ==
    /\ []((pc = "scan" /\ LastMatched("MacroBeforeEnd"))
              => /\ offset = matched[Len(matched)].at
                 /\ ENABLED Match)
    /\ [][(pc = "scan" /\ LastMatched("MacroBeforeEnd"))
              => /\ Matches("MacroEnd")
                 /\ matched'[Len(matched')].at = offset
                 /\ matched'[Len(matched')].len = 2
                 /\ offset' = offset + 2
                 /\ errors' = errors]_vars

C17_Witness ==
    /\ pc = "done"
    /\ errors = <<>>
    /\ \E r \in 1..(Len(matched) - 1) :
          /\ matched[r].type = "MacroBeforeEnd"
          /\ matched[r + 1].type = "MacroEnd"
          /\ Len(matched[r].stack) = 5

\* C18: a token that is both plainly used and mode-entering is detected in either
\* order: using(T) after enter(T, m) throws, and enter(T, m) after using(T) throws.
C18_UsedAndEntering ==
    [][/\ (lastCall'.fn = "using" /\ lastCall'.token # Undefined
              /\ enterModesMap[lastCall'.token] # NoMode)
             => thrown' = ErrUsingEntering
       /\ (lastCall'.fn = "enter" /\ lastCall'.token \in usedTokens)
             => thrown' # NoError]_vars

PoppingKinds == {"MacroEnd", "MacroBeforeEnd", "MacroEndOfIdentifier", "ModePopper"}

\* C19: no popping kind (MacroEnd, MacroBeforeEnd, MacroEndOfIdentifier, ModePopper)
\* is matched while the stack has depth 1, and no "stack underflow" error is reported.
\* (Checked on the latest match of every state, which covers every match.)
C19_NoUnderflow ==
    /\ ~HasError(ErrUnderflow)
    /\ \A r \in {Len(matched)} \ {0} :
          (matched[r].type \in PoppingKinds \/ POP_MODE[matched[r].type])
              => Len(matched[r].stack) > 1

C19_Witness ==
    /\ pc = "done"
    /\ Len(modeStack) = 1
    /\ \E r \in 1..Len(matched) : matched[r].type = "MacroEnd" /\ Len(matched[r].stack) = 2
    /\ \E r \in 1..Len(matched) : matched[r].type = "ModePopper" /\ Len(matched[r].stack) = 3
    /\ \E r \in 1..Len(matched) :
          matched[r].type \in {"MacroEndOfIdentifier", "MacroBeforeEnd"}
              /\ Len(matched[r].stack) = 3

\* C20: the mode stack is well-formed: plaintext_mode only at the bottom, every
\* macro_def_mode directly above plaintext_mode or macro_args_mode, every
\* macro_args_mode directly above macro_def_mode, and macro_identifier_end only on
\* top, directly above macro_def_mode.
C20_StackWellFormed ==
    /\ modeStack[1] = plaintext
    /\ \A i \in 2..Len(modeStack) :
          /\ modeStack[i] # plaintext
          /\ modeStack[i] = macro_def => modeStack[i - 1] \in {plaintext, macro_args}
          /\ modeStack[i] = macro_args => modeStack[i - 1] = macro_def
          /\ modeStack[i] = macro_identifier_end
                => i = Len(modeStack) /\ modeStack[i - 1] = macro_def

C20_Witness ==
    /\ pc = "scan"
    /\ Len(modeStack) = 7
    /\ Top(modeStack) = macro_identifier_end
    /\ errors = <<>>

====
